---- MODULE Spec2Model ----
(***************************************************************************)
(* The video session of YuKeTang: run_course_session of                    *)
(* src/src/core/course_progress.py, from the loop over the video leafs     *)
(* (line 168) to the end of the batch (line 391).                          *)
(*                                                                         *)
(* Units.  Watch lengths, durations and the simulated cursor are whole     *)
(* seconds (the code's floats, sampled at integers); wall-clock time and   *)
(* the timestamp pointer are milliseconds; a coverage is held in tenths of *)
(* a percent, rounded down, which keeps every comparison with the          *)
(* threshold 100.0 exact.  simulated_rate is held in percent.              *)
(***************************************************************************)
EXTENDS Integers, Sequences, FiniteSets, TLC

VARIABLES
    pc,                          \* position inside run_course_session
    idx,                         \* 1-based position in the batch of video leafs
    now,                         \* time.time() * 1000
    ticks,                       \* loop iterations started so far (bounded)
    d,                           \* duration of the current item
    completed_flag,              \* video_data.get('completed', 0)
    watched_seconds,             \* recorded server watched length
    has_watched,                 \* watch_length of the latest in-loop poll
    timestamp_ms,                \* int(time.time() * 1000) taken at item start
    current_cp,                  \* simulated cursor
    simulated_rate,              \* playback-rate factor, in percent
    ts_pointer,                  \* timestamp pointer
    stuck_reset_notice_shown,
    last_heartbeat_time,
    is_restarting,
    last_watched_before_restart,
    retry,                       \* index of the heartbeat attempt inside one tick
    status_code,                 \* outcome of the latest heartbeat attempt of the tick
    payload,                     \* the heartbeat record built by the latest tick
    restarts,                    \* stall-to-restart transitions of the current item
    warnings,                    \* restart warnings logged for the current item
    last_log,                    \* the latest line written to the log
    app_pc,                      \* position inside main
    choice,                      \* the latest answer to the menu prompt
    menus_shown,                 \* times the menu was printed (bounded)
    errors_logged                \* log_error lines written by main

\* the variables of main
appvars == << app_pc, choice, menus_shown, errors_logged >>

\* the variables of run_course_session
sessionvars == << pc, idx, now, ticks, d, completed_flag, watched_seconds,
                  has_watched, timestamp_ms, current_cp, simulated_rate,
                  ts_pointer, stuck_reset_notice_shown, last_heartbeat_time,
                  is_restarting, last_watched_before_restart, retry,
                  status_code, payload, restarts, warnings, last_log >>

vars == << sessionvars, appvars >>

(***************************************************************************)
(* Bounds of the model.                                                    *)
(***************************************************************************)
NumItems == 2
MaxTicks == 6
MaxTicksD == 23
MaxTicksP == 3
MaxTicksL == 2
MaxDuration == 12
MaxWatched == 25

(***************************************************************************)
(* Values of the JSON documents.  None is Python's None (a JSON null),     *)
(* Missing is a key the document does not carry.                           *)
(***************************************************************************)
None == -1
Missing == -2

\* dict.get(key, default)
Get(field, default) == IF field = Missing THEN default ELSE field

\* Python truth value of a number or None: `not x`
Falsy(x) == x = None \/ x = 0

Min(a, b) == IF a <= b THEN a ELSE b
Max(a, b) == IF a >= b THEN a ELSE b

\* the least integer >= a / b, for a >= 0 and b > 0
CeilDiv(a, b) == (a + b - 1) \div b

(***************************************************************************)
(* Program constants.                                                      *)
(***************************************************************************)
COVERAGE_THRESHOLD == 1000
max_retries == 3
\* milliseconds
min_interval == 500
max_interval == 1500
retry_pause == 500

(***************************************************************************)
(* calculate_coverage and is_video_completed (tenths of a percent).        *)
(***************************************************************************)
calculate_coverage(watch_len, video_len) ==
    IF Falsy(video_len) \/ video_len <= 0
    THEN 0
    ELSE Min(1000, (watch_len * 1000) \div video_len)

\* faulty variant: the server's completed flag is taken as sufficient
CompletedTrustingFlag(watch_len, video_len, server_completed) ==
    \/ calculate_coverage(watch_len, video_len) >= COVERAGE_THRESHOLD
    \/ server_completed = 1

\* faulty variant: full coverage counts only once the server's flag agrees
CompletedNeedingFlag(watch_len, video_len, server_completed) ==
    /\ calculate_coverage(watch_len, video_len) >= COVERAGE_THRESHOLD
    /\ server_completed = 1

is_video_completed(watch_len, video_len, server_completed) ==
    calculate_coverage(watch_len, video_len) >= COVERAGE_THRESHOLD

(***************************************************************************)
(* The random draws, sampled at the ends of their ranges.                  *)
(***************************************************************************)
\* random.uniform(5, min(60, max(10, d * 0.1)))
SeedValues(dur) == {5, Min(60, Max(10, dur \div 10))}

\* random.uniform(max(2, d * 0.01), max(5, d * 0.05))
Increments(dur) == {Max(2, CeilDiv(dur, 100)), Max(5, dur \div 20)}

\* random.uniform(0.9, 1.25), in percent
Rates == {90, 125}

\* random.randint(100, 500)
Jitters == {100}

\* int((increment / simulated_rate) * 1000 + random.randint(100, 500))
TsAdvance(inc, rate, jit) == (inc * 100000) \div rate + jit

(***************************************************************************)
(* What the server may answer.                                             *)
(***************************************************************************)
\* media.duration of leaf_info
Durations == {None, 0, 8, 20}
\* watch_length of a progress response
WatchLengths == {Missing, None, 3, 5, 20}
\* video_length of a progress response
VideoLengths == {Missing, None, 8}
\* completed of a progress response
Flags == {0, 1}
\* wall-clock milliseconds one loop iteration takes
WallMs == {1000}

\* random_sleep_interval(), in milliseconds: uniform(0.3, 0.8), and with
\* probability 0.1 uniform(0.5, 1.5) more
random_sleep_interval == {300, 2300}
\* the time a request takes, in milliseconds, up to timeout=10
Latencies == {0, 1000}

\* the pacing of the heartbeats: an item of 8 seconds
DurationsP == {8}
WatchLengthsP == {5, 20}

\* scenario D of the specification: 600 seconds, the server stalled at 550
DurationsD == {600}
WatchLengthsD == {550, 600}

(***************************************************************************)
(* The decisions of the loop.                                              *)
(***************************************************************************)
\* faulty variant: only a duration of zero is refused
UnplayableZeroOnly(dur) == dur = 0

\* line 208: `not d or d <= 0`
Unplayable(dur) == Falsy(dur) \/ dur <= 0

\* lines 262-269: the sleep before a heartbeat, `elapsed` after the last one
PacingSleeps(elapsed) ==
    IF elapsed < min_interval THEN {min_interval - elapsed}
    ELSE IF elapsed < max_interval THEN random_sleep_interval
    ELSE {0}

\* line 219: `watched_seconds if watched_seconds else random.uniform(...)`
SeedCursor(watched, r) == IF ~Falsy(watched) THEN watched ELSE r

\* faulty variant: the advance is not capped at the duration
AdvanceCursorUncapped(cp, dur, inc) == cp + inc

\* line 247
AdvanceCursor(cp, dur, inc) == Min(dur, cp + inc)

\* faulty variant: one attempt too many
HasNextAttemptOffByOne(r) == r < max_retries

\* lines 315-332: the retry loop goes on after a failed attempt number `r`
\* only while range(max_retries) has a next element
HasNextAttempt(r) == r + 1 < max_retries

\* faulty variant: while restarting every polled value is accepted
AcceptedAlways(h, snapshot, watched) == TRUE

\* faulty variant: a value above the recorded one is not accepted
AcceptedOnlyRegress(h, snapshot, watched) == 10 * h < 8 * snapshot

\* line 357
Accepted(h, snapshot, watched) == 10 * h < 8 * snapshot \/ h > watched

\* faulty variant: every accepted value ends the restart
BelowRestartExitAlways(h, dur) == TRUE

\* line 359
BelowRestartExit(h, dur) == 10 * h < 2 * dur

\* faulty variant: the cursor has to pass the duration
StallDetectedStrict(cp, dur, coverage) == cp > dur /\ coverage < COVERAGE_THRESHOLD

\* faulty variant: a stall is seen only below 90 percent coverage
StallDetectedBelow90(cp, dur, coverage) == cp >= dur /\ coverage < 900

\* line 378
StallDetected(cp, dur, coverage) == cp >= dur /\ coverage < COVERAGE_THRESHOLD

\* faulty variant: the notice is written at every restart
ShowsNoticeAlways(shown) == TRUE

\* line 379
ShowsNotice(shown) == ~shown

NoPayload == [cp |-> None, ts |-> None, d |-> None]

\* main has printed the menu once, the answer was "1", and the call of
\* run_course_session (line 29) has selected the course
InSession ==
    /\ app_pc = "session"
    /\ choice = "1"
    /\ menus_shown = 1
    /\ errors_logged = 0

Init ==
    /\ pc = "leaf_info"
    /\ idx = 1
    /\ now = 0
    /\ ticks = 0
    /\ d = None
    /\ completed_flag = 0
    /\ watched_seconds = None
    /\ has_watched = None
    /\ timestamp_ms = None
    /\ current_cp = None
    /\ simulated_rate = None
    /\ ts_pointer = None
    /\ stuck_reset_notice_shown = FALSE
    /\ last_heartbeat_time = None
    /\ is_restarting = FALSE
    /\ last_watched_before_restart = None
    /\ retry = 0
    /\ status_code = "none"
    /\ payload = NoPayload
    /\ restarts = 0
    /\ warnings = 0
    /\ last_log = "none"
    /\ InSession

\* the variables of the simulation, set by InitItem and the loop
simvars == << current_cp, simulated_rate, ts_pointer, stuck_reset_notice_shown,
              last_heartbeat_time, is_restarting, last_watched_before_restart >>

\* faulty variant: the iteration over the leaves starts over
NextIndexStartsOver(i) == 1

\* line 168: enumerate(video_leafs) hands out the leaves in order
NextIndex(i) == i + 1

\* the inner for loop moves to the next leaf, or the batch ends
NextItemPc == IF idx < NumItems THEN "leaf_info" ELSE "finished"

(***************************************************************************)
(* Lines 168-184: GET leaf_info, read ccid, duration, the identifiers, and *)
(* take timestamp_ms.  Nothing catches a failure of the request, of        *)
(* response.json() or of the subscripts.  has_watched and payload, which   *)
(* every tick writes before it reads them, start the iteration unbound,    *)
(* and the counts kept per item start at zero.                             *)
(***************************************************************************)
FetchLeafInfo(durations) ==
    /\ pc = "leaf_info"
    /\ \E ok \in BOOLEAN :
         IF ok
         THEN \E dur \in durations :
                /\ d' = dur
                /\ timestamp_ms' = now
                /\ pc' = "progress"
         ELSE /\ pc' = "raised"
              /\ UNCHANGED << d, timestamp_ms >>
    /\ has_watched' = None
    /\ payload' = NoPayload
    /\ restarts' = 0
    /\ warnings' = 0
    /\ UNCHANGED << idx, now, ticks, completed_flag, watched_seconds, simvars, retry,
                    status_code, last_log >>
    /\ UNCHANGED appvars

(***************************************************************************)
(* Lines 185-194: the first progress poll.  video_data is held as the two  *)
(* fields lines 205-206 read from it.                                      *)
(***************************************************************************)
FetchProgress(watch) ==
    /\ pc = "progress"
    /\ \E ok \in BOOLEAN :
         IF ok
         THEN \E wl \in watch, fl \in Flags :
                /\ watched_seconds' = Get(wl, 0)
                /\ completed_flag' = fl
                /\ pc' = IF d = 0 THEN "fallback" ELSE "init"
         ELSE /\ pc' = "raised"
              /\ UNCHANGED << watched_seconds, completed_flag >>
    /\ UNCHANGED << idx, now, ticks, d, has_watched, timestamp_ms, simvars, retry,
                    status_code, payload, restarts, warnings, last_log >>
    /\ UNCHANGED appvars

(***************************************************************************)
(* Lines 196-203: d == 0, the poll is repeated and video_length adopted.   *)
(* int(None) raises inside the try and leaves d alone.                     *)
(***************************************************************************)
FetchFallback(watch, lengths) ==
    /\ pc = "fallback"
    /\ \E ok \in BOOLEAN :
         IF ok
         THEN \E wl \in watch, fl \in Flags, vl \in lengths :
                /\ watched_seconds' = Get(wl, 0)
                /\ completed_flag' = fl
                /\ d' = IF Get(vl, d) = None THEN d ELSE Get(vl, d)
                /\ pc' = "init"
         ELSE /\ pc' = "raised"
              /\ UNCHANGED << watched_seconds, completed_flag, d >>
    /\ UNCHANGED << idx, now, ticks, has_watched, timestamp_ms, simvars, retry,
                    status_code, payload, restarts, warnings, last_log >>
    /\ UNCHANGED appvars

(***************************************************************************)
(* Lines 205-244: the duration check, the seeding of the simulation state  *)
(* and the completion check before the loop.  A watch_length of null makes *)
(* calculate_coverage divide None (line 218): a TypeError nobody catches.  *)
(***************************************************************************)
\* faulty variant: the snapshot of the item before is kept
SnapshotCarriedOver(watched) == last_watched_before_restart

\* line 227: last_watched_before_restart = watched_seconds
SnapshotAtStart(watched) == watched

InitItemReading(server_completed, warned_flag) ==
    /\ pc = "init"
    /\ IF Unplayable(d)
       THEN /\ last_log' = "unplayable"
            /\ idx' = NextIndex(idx)
            /\ pc' = NextItemPc
            /\ UNCHANGED simvars
       ELSE IF watched_seconds = None
       THEN /\ pc' = "raised"
            /\ UNCHANGED << idx, simvars, last_log >>
       ELSE /\ \E r \in SeedValues(d), rate \in Rates :
                 /\ current_cp' = SeedCursor(watched_seconds, r)
                 /\ simulated_rate' = rate
            /\ ts_pointer' = timestamp_ms
            /\ stuck_reset_notice_shown' = FALSE
            /\ last_heartbeat_time' = now
            /\ is_restarting' = FALSE
            /\ last_watched_before_restart' = SnapshotAtStart(watched_seconds)
            /\ IF is_video_completed(watched_seconds, d, server_completed)
               THEN /\ last_log' = "already_complete"
                    /\ idx' = NextIndex(idx)
                    /\ pc' = NextItemPc
               ELSE /\ last_log' = IF warned_flag = 1 THEN "flag_without_coverage"
                                                      ELSE last_log
                    /\ idx' = idx
                    /\ pc' = "loop"
    /\ UNCHANGED << now, ticks, d, completed_flag, watched_seconds, has_watched,
                    timestamp_ms, retry, status_code, payload, restarts,
                    warnings >>
    /\ UNCHANGED appvars

\* the item's seeding with the flag of the first progress answer
InitItem == InitItemReading(completed_flag, completed_flag)

(***************************************************************************)
(* Lines 245-312: the while test, the advance of the cursor and of the     *)
(* timestamp pointer, the pacing sleep and the heartbeat record.  The      *)
(* wall-clock time of one iteration is charged here.                       *)
(***************************************************************************)
TickReading(budget, wall, server_completed) ==
    /\ pc = "loop"
    /\ IF is_video_completed(watched_seconds, d, server_completed)
       THEN /\ idx' = NextIndex(idx)
            /\ pc' = NextItemPc
            /\ UNCHANGED << now, ticks, current_cp, ts_pointer, last_heartbeat_time,
                            retry, status_code, payload, last_log >>
       ELSE /\ ticks < budget
            /\ ticks' = ticks + 1
            /\ \E inc \in Increments(d), jit \in Jitters, w \in wall :
                 /\ current_cp' = AdvanceCursor(current_cp, d, inc)
                 /\ ts_pointer' = ts_pointer + TsAdvance(inc, simulated_rate, jit)
                 /\ now' = now + w
            /\ last_heartbeat_time' = now'
            /\ payload' = [cp |-> current_cp', ts |-> ts_pointer', d |-> d]
            /\ retry' = 0
            /\ status_code' = "none"
            /\ last_log' = IF is_restarting THEN "replaying" ELSE "watching"
            /\ idx' = idx
            /\ pc' = "heartbeat"
    /\ UNCHANGED << d, completed_flag, watched_seconds, has_watched, timestamp_ms,
                    simulated_rate, stuck_reset_notice_shown, is_restarting,
                    last_watched_before_restart, restarts, warnings >>
    /\ UNCHANGED appvars

\* the tick with the flag the last progress answer carried
Tick(budget, wall) == TickReading(budget, wall, completed_flag)

(***************************************************************************)
(* Lines 314-332: one attempt of the heartbeat POST.  The loop ends at the *)
(* first HTTP 200, or when range(max_retries) is used up.                  *)
(***************************************************************************)
HeartbeatAttempt ==
    /\ pc = "heartbeat"
    /\ \E outcome \in {"200", "non200", "exception"} :
         /\ status_code' = outcome
         /\ IF outcome = "200"
            THEN /\ pc' = "poll"
                 /\ UNCHANGED retry
            ELSE IF HasNextAttempt(retry)
            THEN /\ retry' = retry + 1
                 /\ pc' = "heartbeat"
            ELSE /\ pc' = "poll"
                 /\ UNCHANGED retry
    /\ UNCHANGED << idx, ticks, d, completed_flag, watched_seconds, has_watched,
                    timestamp_ms, simvars, payload, restarts, warnings,
                    last_log >>
    /\ UNCHANGED appvars

\* the attempt, its duration charged to the tick that follows
Heartbeat == HeartbeatAttempt /\ UNCHANGED now

\* the attempt with the time it takes: the request, and the pause of lines
\* 326-327 and 330-331 when another attempt follows
HeartbeatTimed(latencies) ==
    /\ HeartbeatAttempt
    /\ \E lat \in latencies :
         now' = now + lat + (IF pc' = "heartbeat" THEN retry_pause ELSE 0)

(***************************************************************************)
(* Lines 355-367: the merge of the polled watch length h.                  *)
(***************************************************************************)
MergedWatched(h) ==
    IF h = None THEN watched_seconds
    ELSE IF is_restarting
    THEN IF Accepted(h, last_watched_before_restart, watched_seconds)
         THEN h ELSE watched_seconds
    ELSE h

MergedRestarting(h) ==
    IF h = None THEN is_restarting
    ELSE IF is_restarting
    THEN IF Accepted(h, last_watched_before_restart, watched_seconds)
            /\ BelowRestartExit(h, d)
         THEN FALSE ELSE is_restarting
    ELSE is_restarting

\* faulty variant: a value accepted while restarting does not raise the cursor
MergedCursorNormalOnly(h) ==
    IF h # None /\ ~is_restarting /\ h > current_cp THEN h ELSE current_cp

\* faulty variant: the cursor is set to the server's value, also downwards
MergedCursorFollowing(h) == IF h = None THEN current_cp ELSE h

MergedCursor(h) ==
    IF h = None THEN current_cp
    ELSE IF is_restarting
    THEN IF Accepted(h, last_watched_before_restart, watched_seconds)
         THEN Max(current_cp, h) ELSE current_cp
    ELSE IF h > current_cp THEN h ELSE current_cp

\* faulty variant: the failed poll falls through to the decisions of the tick
AfterFailedPollFallsThrough == "decide"

\* lines 341-343: the except branch logs a warning and ends with `continue`
AfterFailedPoll == "loop"

(***************************************************************************)
(* Lines 334-367: the progress poll of the tick and the merge of its       *)
(* answer.  Only the request itself is inside the try; response_new.json() *)
(* is not.  The loop variable and the response of the retry loop are dead  *)
(* from here on.                                                           *)
(***************************************************************************)
PollAnswer(watch) ==
    /\ pc = "poll"
    /\ \E outcome \in {"ok", "exception", "undecodable"} :
         CASE outcome = "ok" ->
                \E wl \in watch, fl \in Flags :
                  /\ has_watched' = Get(wl, 0)
                  /\ completed_flag' = fl
                  /\ watched_seconds' = MergedWatched(has_watched')
                  /\ is_restarting' = MergedRestarting(has_watched')
                  /\ current_cp' = MergedCursor(has_watched')
                  /\ pc' = "decide"
                  /\ UNCHANGED last_log
           [] outcome = "exception" ->
                /\ last_log' = "poll_failed"
                /\ pc' = AfterFailedPoll
                /\ UNCHANGED << has_watched, completed_flag, watched_seconds,
                                is_restarting, current_cp >>
           [] outcome = "undecodable" ->
                /\ pc' = "raised"
                /\ UNCHANGED << has_watched, completed_flag, watched_seconds,
                                is_restarting, current_cp, last_log >>
    /\ retry' = 0
    /\ status_code' = "none"
    /\ UNCHANGED << idx, ticks, d, timestamp_ms, simulated_rate, ts_pointer,
                    stuck_reset_notice_shown, last_heartbeat_time,
                    last_watched_before_restart, payload, restarts,
                    warnings >>
    /\ UNCHANGED appvars

\* the poll, its duration charged to the tick that follows
Poll(watch) == PollAnswer(watch) /\ UNCHANGED now

\* the poll with the time the request takes
PollTimed(watch, latencies) ==
    /\ PollAnswer(watch)
    /\ \E lat \in latencies : now' = now + lat

(***************************************************************************)
(* Lines 369-389: the completion check and the stall-to-restart            *)
(* transition.                                                             *)
(***************************************************************************)
DecideReading(server_completed) ==
    /\ pc = "decide"
    /\ IF is_video_completed(watched_seconds, d, server_completed)
       THEN /\ last_log' = "completed"
            /\ idx' = NextIndex(idx)
            /\ pc' = NextItemPc
            /\ UNCHANGED << current_cp, last_watched_before_restart, ts_pointer,
                            is_restarting, stuck_reset_notice_shown, restarts,
                            warnings >>
       ELSE IF StallDetected(current_cp, d, calculate_coverage(watched_seconds, d))
       THEN /\ stuck_reset_notice_shown' = TRUE
            /\ warnings' = IF ShowsNotice(stuck_reset_notice_shown)
                           THEN warnings + 1 ELSE warnings
            /\ last_log' = IF ShowsNotice(stuck_reset_notice_shown)
                           THEN "restart_notice" ELSE last_log
            /\ current_cp' = 0
            /\ last_watched_before_restart' = watched_seconds
            /\ ts_pointer' = now
            /\ is_restarting' = TRUE
            /\ restarts' = restarts + 1
            /\ idx' = idx
            /\ pc' = "loop"
       ELSE /\ idx' = idx
            /\ pc' = "loop"
            /\ UNCHANGED << current_cp, last_watched_before_restart, ts_pointer,
                            is_restarting, stuck_reset_notice_shown, restarts,
                            warnings, last_log >>
    /\ UNCHANGED << ticks, d, completed_flag, watched_seconds, has_watched,
                    timestamp_ms, simulated_rate, last_heartbeat_time, retry,
                    status_code, payload >>
    /\ UNCHANGED appvars

\* the decisions with the flag the poll of the tick carried
DecideOutcome == DecideReading(completed_flag)

\* the decision, the sleep of line 388 charged to the tick that follows
Decide == DecideOutcome /\ UNCHANGED now

\* the decision with the sleep of line 388, taken after a restart only
DecideTimed(sleeps) ==
    /\ DecideOutcome
    /\ IF restarts' # restarts
       THEN \E s \in sleeps : now' = now + s
       ELSE now' = now

(***************************************************************************)
(* Line 391: the batch is over.                                            *)
(***************************************************************************)
Return ==
    /\ pc = "finished"
    /\ pc' = "returned"
    /\ last_log' = "course_done"
    /\ UNCHANGED << idx, now, ticks, d, completed_flag, watched_seconds, has_watched,
                    timestamp_ms, simvars, retry, status_code, payload,
                    restarts, warnings >>
    /\ UNCHANGED appvars

Next ==
    \/ FetchLeafInfo(Durations)
    \/ FetchProgress(WatchLengths)
    \/ FetchFallback(WatchLengths, VideoLengths)
    \/ InitItem
    \/ Tick(MaxTicks, WallMs)
    \/ Heartbeat
    \/ Poll(WatchLengths)
    \/ Decide
    \/ Return

Spec == Init /\ [][Next]_vars

\* scenario D: every item lasts 600 seconds and the server answers 550 or 600
NextD ==
    \/ FetchLeafInfo(DurationsD)
    \/ FetchProgress(WatchLengthsD)
    \/ InitItem
    \/ Tick(MaxTicksD, WallMs)
    \/ Heartbeat
    \/ Poll(WatchLengthsD)
    \/ Decide
    \/ Return

SpecD == Init /\ [][NextD]_vars

(***************************************************************************)
(* Runs without an end.  The loop has no bound of its own, so its endless  *)
(* runs are followed with the counters that no test of the loop reads (the *)
(* number of ticks and of restarts, the wall clock, the timestamp pointer) *)
(* held at a ceiling once they reach it; every other variable is exact.    *)
(***************************************************************************)
Horizon == MaxTicksL * 1000
Held(x, ceiling) == IF x > ceiling THEN ceiling ELSE x

\* lines 245-312, as Tick, for any number of ticks
TickL(incs, wall) ==
    /\ pc = "loop"
    /\ IF is_video_completed(watched_seconds, d, completed_flag)
       THEN /\ idx' = NextIndex(idx)
            /\ pc' = NextItemPc
            /\ UNCHANGED << now, ticks, current_cp, ts_pointer, last_heartbeat_time,
                            retry, status_code, payload, last_log >>
       ELSE /\ ticks' = Held(ticks + 1, MaxTicksL)
            /\ \E inc \in incs, jit \in Jitters, w \in wall :
                 /\ current_cp' = AdvanceCursor(current_cp, d, inc)
                 /\ ts_pointer' = Held(ts_pointer + TsAdvance(inc, simulated_rate, jit),
                                       Horizon)
                 /\ now' = Held(now + w, Horizon)
            /\ last_heartbeat_time' = now'
            /\ payload' = [cp |-> current_cp', ts |-> ts_pointer', d |-> d]
            /\ retry' = 0
            /\ status_code' = "none"
            /\ last_log' = IF is_restarting THEN "replaying" ELSE "watching"
            /\ idx' = idx
            /\ pc' = "heartbeat"
    /\ UNCHANGED << d, completed_flag, watched_seconds, has_watched, timestamp_ms,
                    simulated_rate, stuck_reset_notice_shown, is_restarting,
                    last_watched_before_restart, restarts, warnings >>
    /\ UNCHANGED appvars

\* lines 369-389, as Decide, for any number of restarts
DecideL ==
    /\ pc = "decide"
    /\ IF is_video_completed(watched_seconds, d, completed_flag)
       THEN /\ last_log' = "completed"
            /\ idx' = NextIndex(idx)
            /\ pc' = NextItemPc
            /\ UNCHANGED << current_cp, last_watched_before_restart, ts_pointer,
                            is_restarting, stuck_reset_notice_shown, restarts,
                            warnings >>
       ELSE IF StallDetected(current_cp, d, calculate_coverage(watched_seconds, d))
       THEN /\ stuck_reset_notice_shown' = TRUE
            /\ warnings' = IF ShowsNotice(stuck_reset_notice_shown)
                           THEN warnings + 1 ELSE warnings
            /\ last_log' = IF ShowsNotice(stuck_reset_notice_shown)
                           THEN "restart_notice" ELSE last_log
            /\ current_cp' = 0
            /\ last_watched_before_restart' = watched_seconds
            /\ ts_pointer' = now
            /\ is_restarting' = TRUE
            /\ restarts' = Held(restarts + 1, MaxTicksL)
            /\ idx' = idx
            /\ pc' = "loop"
       ELSE /\ idx' = idx
            /\ pc' = "loop"
            /\ UNCHANGED << current_cp, last_watched_before_restart, ts_pointer,
                            is_restarting, stuck_reset_notice_shown, restarts,
                            warnings, last_log >>
    /\ UNCHANGED << now, ticks, d, completed_flag, watched_seconds, has_watched,
                    timestamp_ms, simulated_rate, last_heartbeat_time, retry,
                    status_code, payload >>
    /\ UNCHANGED appvars

\* the program goes on as long as it has a next step; the server and the
\* network owe it nothing
NextL ==
    \/ FetchLeafInfo(Durations)
    \/ FetchProgress(WatchLengths)
    \/ FetchFallback(WatchLengths, VideoLengths)
    \/ InitItem
    \/ TickL(Increments(d), WallMs)
    \/ Heartbeat
    \/ Poll(WatchLengths)
    \/ DecideL
    \/ Return

SpecL == Init /\ [][NextL]_vars /\ WF_vars(NextL)

(***************************************************************************)
(* Scenario A of the specification: the last item of the batch lasts 600   *)
(* seconds and nothing of it has been watched; the cursor advances by the  *)
(* largest increment.  The server repeats its last answer or, once a       *)
(* heartbeat of the tick was delivered, has moved up to the cursor it      *)
(* reported; requests fail, but no answer is undecodable.  Fairness: the   *)
(* heartbeat that reports the whole duration is delivered, and credited by *)
(* the server, if that is possible again and again.                        *)
(***************************************************************************)
WatchLengthsA == {0}
\* the upper end of random.uniform(max(2, d * 0.01), max(5, d * 0.05))
LargestIncrement(dur) == {Max(5, dur \div 20)}

LastAnswer == IF has_watched = None THEN watched_seconds ELSE has_watched

ServerFollows ==
    {LastAnswer}
        \cup (IF status_code = "200" /\ payload.cp > LastAnswer
              THEN {payload.cp} ELSE {})

InitA ==
    /\ pc = "leaf_info"
    /\ idx = NumItems
    /\ now = 0
    /\ ticks = 0
    /\ d = None
    /\ completed_flag = 0
    /\ watched_seconds = None
    /\ has_watched = None
    /\ timestamp_ms = None
    /\ current_cp = None
    /\ simulated_rate = None
    /\ ts_pointer = None
    /\ stuck_reset_notice_shown = FALSE
    /\ last_heartbeat_time = None
    /\ is_restarting = FALSE
    /\ last_watched_before_restart = None
    /\ retry = 0
    /\ status_code = "none"
    /\ payload = NoPayload
    /\ restarts = 0
    /\ warnings = 0
    /\ last_log = "none"
    /\ InSession

FetchLeafInfoA == FetchLeafInfo(DurationsD) /\ pc' # "raised"
FetchProgressA ==
    FetchProgress(WatchLengthsA) /\ pc' # "raised" /\ completed_flag' = 0
PollA == Poll(ServerFollows) /\ pc' # "raised" /\ completed_flag' = 0

DeliveredAtEnd == Heartbeat /\ status_code' = "200" /\ payload.cp >= d
CreditedAtEnd == PollA /\ pc' = "decide" /\ has_watched' >= d

NextA ==
    \/ FetchLeafInfoA
    \/ FetchProgressA
    \/ InitItem
    \/ TickL(LargestIncrement(d), WallMs)
    \/ Heartbeat
    \/ PollA
    \/ DecideL
    \/ Return

SpecA ==
    /\ InitA /\ [][NextA]_vars
    /\ WF_vars(NextA)
    /\ SF_vars(DeliveredAtEnd)
    /\ SF_vars(CreditedAtEnd)

(***************************************************************************)
(* The pacing of the heartbeats: every request takes its time and every    *)
(* sleep of the loop is charged where the code takes it.  The sleep before *)
(* a heartbeat (lines 262-269) is chosen by the time since the last one.   *)
(***************************************************************************)
NextP ==
    \/ FetchLeafInfo(DurationsP)
    \/ FetchProgress(WatchLengthsP)
    \/ InitItem
    \/ Tick(MaxTicksP, PacingSleeps(now - last_heartbeat_time))
    \/ HeartbeatTimed(Latencies)
    \/ PollTimed(WatchLengthsP, Latencies)
    \/ DecideTimed(random_sleep_interval)
    \/ Return

SpecP == Init /\ [][NextP]_vars

(***************************************************************************)
(* The completion evaluator on its own: lines 229-233 applied to every     *)
(* watched length, duration, flag and cursor of a bounded range.           *)
(***************************************************************************)
InitEval ==
    /\ pc = "evaluate"
    /\ idx = 1
    /\ now = 0
    /\ ticks = 0
    /\ d \in 1..MaxDuration
    /\ completed_flag \in Flags
    /\ watched_seconds \in 0..MaxWatched
    /\ has_watched = None
    /\ timestamp_ms = None
    /\ current_cp \in {0, d}
    /\ simulated_rate = None
    /\ ts_pointer = None
    /\ stuck_reset_notice_shown = FALSE
    /\ last_heartbeat_time = None
    /\ is_restarting = FALSE
    /\ last_watched_before_restart = None
    /\ retry = 0
    /\ status_code = "none"
    /\ payload = NoPayload
    /\ restarts = 0
    /\ warnings = 0
    /\ last_log = "none"
    /\ InSession

Evaluate ==
    /\ pc = "evaluate"
    /\ pc' = "evaluated"
    /\ last_log' = IF is_video_completed(watched_seconds, d, completed_flag)
                   THEN "completed" ELSE "incomplete"
    /\ UNCHANGED << idx, now, ticks, d, completed_flag, watched_seconds, has_watched,
                    timestamp_ms, simvars, retry, status_code, payload, restarts,
                    warnings >>
    /\ UNCHANGED appvars

NextEval == Evaluate

SpecEval == InitEval /\ [][NextEval]_vars

(***************************************************************************)
(*                             Properties                                  *)
(***************************************************************************)
InLoop == pc \in {"loop", "heartbeat", "poll", "decide"}
ItemLeft == pc \in {"leaf_info", "finished"}

(* C1: for every duration d > 0 and watched length w >= 0 the completion   *)
(* evaluator answers true exactly when w >= d (coverage >= 100), whatever  *)
(* the completed flag and the cursor are.                                  *)
C1_CompleteIffCovered ==
    pc = "evaluated" => ((last_log = "completed") <=> (watched_seconds >= d))

\* the flag is 1 and the cursor at the end, yet w < d: not complete
C1_Witness ==
    /\ pc = "evaluated"
    /\ completed_flag = 1
    /\ current_cp = d
    /\ watched_seconds = d - 1
    /\ last_log = "incomplete"

(* C2: an item whose duration is still unknown or <= 0 after the metadata  *)
(* fetch and the video_length fallback is skipped, the driver goes on to   *)
(* the next item, and no heartbeat is built or sent for it.                *)
C2_UnplayableSkipped ==
    [][ /\ (pc = "init" /\ (d = None \/ d <= 0))
            => /\ idx' = idx + 1
               /\ pc' \in {"leaf_info", "finished"}
               /\ last_log' = "unplayable"
               /\ payload' = NoPayload
        /\ (pc' \in {"heartbeat", "poll", "decide"}) => (d' # None /\ d' > 0)
      ]_vars

\* the fallback ran and left the duration at 0; the driver is at the next item
C2_Witness ==
    /\ pc = "leaf_info"
    /\ idx = 2
    /\ d = 0
    /\ last_log = "unplayable"
    /\ payload = NoPayload

(* C3: for one item, the timestamp written into the heartbeat payload      *)
(* never decreases from one tick to a later one, in the Normal phase and   *)
(* in the Restarting phase alike.                                          *)
C3_TimestampNeverDecreases ==
    [][ (payload.ts # None /\ payload'.ts # None) => payload'.ts >= payload.ts ]_vars

(* C4: for a playable item the simulated cursor is <= the duration from    *)
(* the moment it is seeded until the item is left, whenever the server's   *)
(* watched lengths are below the duration.                                 *)
C4_CursorWithinDuration ==
    (/\ InLoop
     /\ watched_seconds < d
     /\ (has_watched = None \/ has_watched < d))
        => current_cp <= d

(* C5 as stated: while Restarting, a poll that returns w' < 0.2 * duration *)
(* ends the restart in that tick and leaves the cursor >= w', whatever the *)
(* snapshot and the recorded watched length are.                           *)
C5_AnySmallValueEndsRestart ==
    [][ (/\ pc = "poll" /\ pc' = "decide"
         /\ is_restarting
         /\ has_watched' # None
         /\ 10 * has_watched' < 2 * d)
            => (~is_restarting' /\ current_cp' >= has_watched') ]_vars

(* C5 amended: while Restarting, a poll that returns w' < 0.2 * duration   *)
(* which is accepted (w' < 0.8 * snapshot, or w' > recorded watched        *)
(* length) ends the restart in that tick, records w' and leaves the cursor *)
(* >= w'.                                                                  *)
C5_AcceptedSmallValueEndsRestart ==
    [][ (/\ pc = "poll" /\ pc' = "decide"
         /\ is_restarting
         /\ has_watched' # None
         /\ 10 * has_watched' < 2 * d
         /\ \/ 10 * has_watched' < 8 * last_watched_before_restart
            \/ has_watched' > watched_seconds)
            => (/\ ~is_restarting'
                /\ watched_seconds' = has_watched'
                /\ current_cp' >= has_watched') ]_vars

\* a restart happened and was ended by an accepted value below 20 percent
C5_Witness ==
    /\ pc = "decide"
    /\ restarts >= 1
    /\ ~is_restarting
    /\ has_watched # None
    /\ watched_seconds = has_watched
    /\ 10 * has_watched < 2 * d
    /\ current_cp >= has_watched

(* C6: when after the merge of a tick the cursor has reached the duration  *)
(* and the coverage of the recorded watched length is below 100, the same  *)
(* iteration sets the cursor to 0, takes the recorded watched length as    *)
(* the snapshot, sets isRestarting and goes on with the next tick of the   *)
(* same item.                                                              *)
C6_StallRestarts ==
    [][ (pc = "decide" /\ current_cp >= d /\ watched_seconds < d)
            => (/\ current_cp' = 0
                /\ last_watched_before_restart' = watched_seconds
                /\ is_restarting'
                /\ pc' = "loop"
                /\ idx' = idx) ]_vars

\* right after a restart
C6_Witness ==
    /\ pc = "loop"
    /\ restarts >= 1
    /\ is_restarting
    /\ current_cp = 0
    /\ last_watched_before_restart = watched_seconds
    /\ watched_seconds < d

\* an item of 600 seconds that stalled at 550 and has just been completed
CompletedAfterStallAt550 ==
    /\ ItemLeft
    /\ last_log = "completed"
    /\ d = 600
    /\ last_watched_before_restart = 550
    /\ restarts >= 1

(* C7 as stated: an item of duration 600 whose cursor reaches 600 while    *)
(* the server is stalled at 550 goes through exactly one stall-to-restart  *)
(* transition before it completes.                                         *)
C7_ExactlyOneRestart == CompletedAfterStallAt550 => restarts = 1

(* C7 amended: for an item of duration 600, every tick that ends with the  *)
(* cursor at 600 and the recorded watched length at 550 performs one       *)
(* stall-to-restart transition (cursor back to 0), so that an item that    *)
(* completes after such a stall has gone through at least one of them.     *)
C7_OneRestartPerStall ==
    [][ /\ (pc = "decide" /\ d = 600 /\ current_cp = 600 /\ watched_seconds = 550)
            => (restarts' = restarts + 1 /\ current_cp' = 0 /\ pc' = "loop")
        /\ (restarts' # restarts /\ restarts' # 0)
            => (pc = "decide" /\ current_cp >= d /\ restarts' = restarts + 1)
      ]_vars

\* the scenario as the specification tells it: one restart, then completion
C7_Witness == CompletedAfterStallAt550 /\ restarts = 1

(* C8: over the ticks of one item the restart warning is logged at most    *)
(* once, however often the stall-to-restart transition fires.              *)
C8_WarningAtMostOnce == warnings <= 1 /\ (restarts >= 1 => warnings = 1)

\* two restarts of one item, one warning
C8_Witness == restarts >= 2 /\ warnings = 1

(* C9: no failure met while processing one item aborts the batch: no       *)
(* exception leaves run_course_session.                                    *)
C9_NothingRaised == pc # "raised"

(* C10: within one tick the heartbeat POST is attempted at most 3 times,   *)
(* no attempt follows an HTTP 200, and after 3 failed attempts the engine  *)
(* goes on to the progress poll of the same item.                          *)
C10_BoundedHeartbeatRetries ==
    [][ /\ (pc' = "heartbeat") => (retry' < 3 /\ status_code' # "200")
        /\ (pc = "heartbeat")
            => /\ pc' \in {"heartbeat", "poll"}
               /\ idx' = idx
               /\ (status_code' = "200" \/ retry = 2) => pc' = "poll"
               /\ (pc' = "heartbeat") => retry' = retry + 1
      ]_vars

\* three attempts failed and the engine is at the poll
C10_Witness ==
    /\ pc = "poll"
    /\ retry = 2
    /\ status_code \in {"non200", "exception"}

(* C13: while the coverage of the recorded watched length is below 100, a  *)
(* completed flag of 1 never ends the item: an item is declared complete   *)
(* only with recorded watched >= duration, and a flag of 1 with coverage   *)
(* below 100 at most writes a warning, the loop is entered or goes on with *)
(* the same item, and nothing is raised.                                   *)
C13_FlagNeverEndsItem ==
    [][ /\ (idx' # idx /\ last_log' \in {"completed", "already_complete"})
            => watched_seconds' >= d'
        /\ (/\ pc = "init" /\ d # None /\ d > 0
            /\ watched_seconds # None /\ watched_seconds < d
            /\ completed_flag = 1)
            => (pc' = "loop" /\ idx' = idx /\ last_log' = "flag_without_coverage")
        /\ (/\ pc \in {"loop", "decide"}
            /\ watched_seconds < d
            /\ completed_flag = 1)
            => (pc' \in {"loop", "heartbeat"} /\ idx' = idx)
      ]_vars

\* in the loop, after a poll that answered flag 1 and a watched length below
\* the duration: the item goes on
C13_Witness ==
    /\ pc = "loop"
    /\ completed_flag = 1
    /\ has_watched # None
    /\ has_watched = watched_seconds
    /\ watched_seconds < d
    /\ last_log \in {"watching", "replaying"}

(* C14: an item whose first progress poll already reports watched >=       *)
(* duration is judged complete whatever the flag is: the loop is not       *)
(* entered, no heartbeat is built or sent, and the driver is at the next   *)
(* item.                                                                   *)
C14_AlreadyCompleteSkipsLoop ==
    [][ (/\ pc = "init" /\ d # None /\ d > 0
         /\ watched_seconds # None /\ watched_seconds >= d)
            => (/\ last_log' = "already_complete"
                /\ pc' \in {"leaf_info", "finished"}
                /\ idx' = idx + 1
                /\ payload' = NoPayload
                /\ ticks' = ticks) ]_vars

\* the flag was 0, the item was skipped as complete without a heartbeat
C14_Witness ==
    /\ pc = "leaf_info"
    /\ idx = 2
    /\ last_log = "already_complete"
    /\ completed_flag = 0
    /\ watched_seconds >= d
    /\ payload = NoPayload
    /\ ticks = 0

(* C16: items are processed strictly one after another: every request      *)
(* (metadata fetch, progress poll, heartbeat) is for the item the driver   *)
(* is at, the driver moves on by exactly one item and only in the step     *)
(* that ends the current one (completed, skipped as unplayable, skipped as *)
(* already complete), the next item then starts with its own metadata      *)
(* fetch, and the driver never returns to an earlier item.                 *)
C16_StrictlySequential ==
    [][ /\ idx' \in {idx, idx + 1}
        /\ (pc \in {"leaf_info", "progress", "fallback", "heartbeat", "poll"})
            => (idx' = idx /\ idx \in 1..NumItems)
        /\ (idx' # idx)
            => /\ pc \in {"init", "decide"}
               /\ last_log' \in {"unplayable", "already_complete", "completed"}
               /\ pc' = IF idx < NumItems THEN "leaf_info" ELSE "finished"
        /\ (pc' = "leaf_info") => idx' = idx + 1
      ]_vars

\* a heartbeat of the second item is under way, the first item has ended
C16_Witness ==
    /\ pc = "heartbeat"
    /\ idx = 2
    /\ payload.cp # None
    /\ last_log \in {"watching", "replaying"}

(* C17: while Restarting, a polled watched value h replaces the recorded   *)
(* watched length only if h < 0.8 * the pre-restart snapshot or h > the    *)
(* recorded watched length; for every other h the merge leaves the         *)
(* recorded watched length, the cursor and the phase as they were (a       *)
(* watch_length of null is such an h).                                     *)
C17_RestartingAcceptsOnlyRegressOrGain ==
    [][ (/\ pc = "poll" /\ pc' = "decide"
         /\ is_restarting)
            => IF /\ has_watched' # None
                  /\ \/ 10 * has_watched' < 8 * last_watched_before_restart
                     \/ has_watched' > watched_seconds
               THEN watched_seconds' = has_watched'
               ELSE /\ watched_seconds' = watched_seconds
                    /\ current_cp' = current_cp
                    /\ is_restarting' ]_vars

\* a value that was not accepted: the recorded watched length differs from it
C17_Witness ==
    /\ pc = "decide"
    /\ is_restarting
    /\ has_watched # None
    /\ has_watched < watched_seconds
    /\ 10 * has_watched >= 8 * last_watched_before_restart

(* C18: within the item loop isRestarting goes from true to false only in  *)
(* the merge of a poll whose value was accepted as the recorded watched    *)
(* length and is below 20% of the duration, and after that step the cursor *)
(* is >= that value; no other step of the loop clears it.                  *)
C18_RestartEndsOnlyOnAcceptedSmallValue ==
    [][ (/\ pc \in {"loop", "heartbeat", "poll", "decide"}
         /\ is_restarting /\ ~is_restarting')
            => /\ pc = "poll" /\ pc' = "decide"
               /\ has_watched' # None
               /\ \/ 10 * has_watched' < 8 * last_watched_before_restart
                  \/ has_watched' > watched_seconds
               /\ 10 * has_watched' < 2 * d
               /\ watched_seconds' = has_watched'
               /\ current_cp' >= has_watched' ]_vars

\* the restart has just ended and the cursor was raised to the accepted value
C18_Witness ==
    /\ pc = "decide"
    /\ restarts >= 1
    /\ ~is_restarting
    /\ last_log = "replaying"
    /\ has_watched # None
    /\ has_watched > 0
    /\ current_cp = has_watched
    /\ watched_seconds = has_watched

(* C19: in the Normal phase, after every successful progress poll that     *)
(* returns a watched value h, the recorded watched length is h and the     *)
(* cursor is max(cursor before the merge, h).                              *)
C19_NormalMergeAdopts ==
    [][ (/\ pc = "poll" /\ pc' = "decide"
         /\ ~is_restarting
         /\ has_watched' # None)
            => /\ watched_seconds' = has_watched'
               /\ current_cp' = IF has_watched' > current_cp
                                 THEN has_watched' ELSE current_cp
               /\ ~is_restarting' ]_vars

\* Normal phase, the server's value is below the cursor and did not lower it
C19_Witness ==
    /\ pc = "decide"
    /\ ~is_restarting
    /\ restarts = 0
    /\ has_watched # None
    /\ watched_seconds = has_watched
    /\ current_cp > has_watched
    /\ current_cp = payload.cp

(* C20: at item start, for every duration d > 0 and initial watched length *)
(* w with 0 <= w < d, the cursor is seeded to the larger of w and a        *)
(* warm-up value r with 5 <= r <= min(60, 10% of d).  Where 10% of d is    *)
(* below the floor of 5 seconds the floor is taken to win (r = 5), so that *)
(* the range of r is never empty.                                          *)
C20_SeedIsLargerOfWatchedAndWarmup ==
    [][ (/\ pc = "init" /\ pc' = "loop"
         /\ d # None /\ d > 0
         /\ watched_seconds # None
         /\ 0 <= watched_seconds /\ watched_seconds < d)
            => \E r \in 5..60 :
                 /\ (10 * r <= d \/ r = 5)
                 /\ current_cp' = IF watched_seconds >= r
                                   THEN watched_seconds ELSE r ]_vars

(* C15: between two consecutive heartbeat emissions of an item at least    *)
(* 0.5 s and at most 1.5 s elapse, for every duration of the network calls *)
(* in between and every outcome of the random sleep.  The emission of a    *)
(* tick is taken at line 270, right before its first POST attempt.         *)
C15_HeartbeatSpacing ==
    [][ (pc = "loop" /\ pc' = "heartbeat" /\ payload.cp # None)
            => /\ last_heartbeat_time' - last_heartbeat_time >= min_interval
               /\ last_heartbeat_time' - last_heartbeat_time <= max_interval
      ]_vars

\* the lower bound alone: at least 0.5 s between two emissions
HeartbeatsAtLeastMinIntervalApart ==
    [][ (pc = "loop" /\ pc' = "heartbeat" /\ payload.cp # None)
            => last_heartbeat_time' - last_heartbeat_time >= min_interval ]_vars

(* C11: every playable item's processing eventually ends, also when the    *)
(* server never credits full coverage and when the heartbeats and the      *)
(* polls of the item keep failing.  An exception that leaves the driver is *)
(* counted as an end here.                                                 *)
C11_EveryItemEnds ==
    (pc = "loop") ~> (pc \in {"leaf_info", "finished", "raised"})

(* C12: an item of 600 seconds with initial watched length 0, a server     *)
(* that eventually follows the reported cursor and a network that          *)
(* eventually succeeds: the item loop eventually terminates, and it        *)
(* terminates only as complete, with recorded watched >= 600.              *)
C12_ScenarioATerminatesComplete ==
    /\ (pc = "loop" /\ d = 600)
          ~> (pc \in {"leaf_info", "finished"} /\ last_log = "completed")
    /\ [][ (pc \in {"loop", "heartbeat", "poll", "decide"}
              /\ pc' \notin {"loop", "heartbeat", "poll", "decide"})
              => (last_log' = "completed" /\ watched_seconds' >= 600) ]_vars

\* the item stalled, restarted and was completed in the end
C12_Witness ==
    /\ pc \in {"leaf_info", "finished"}
    /\ last_log = "completed"
    /\ d = 600
    /\ watched_seconds >= 600
    /\ restarts >= 1

(***************************************************************************)
(* C21.  A progress poll whose answer lacks watch_length counts as no      *)
(* progress seen in that tick: the recorded watched length keeps its       *)
(* value or becomes 0, nothing is raised, the loop goes on, and the answer *)
(* does not move the item between Normal and Restarting.  Line 346 reads   *)
(* the field with .get('watch_length', 0), and of the answers of           *)
(* WatchLengths only the one without the field gives has_watched = 0.      *)
(* The code merges that 0 as a value the server sent: while restarting it  *)
(* is below 80% of the snapshot and below 20% of d, so the restart ends.   *)
(***************************************************************************)
C21_MissingWatchLengthKeepsPhase ==
    [][ (pc = "poll" /\ pc' = "decide" /\ has_watched' = 0)
          => /\ watched_seconds' \in {watched_seconds, 0}
             /\ is_restarting' = is_restarting ]_vars

(***************************************************************************)
(* C22.  A progress poll that fails with a transport error skips the rest  *)
(* of the tick and does not abort the item: the recorded watched length,   *)
(* is_restarting, the snapshot, the notice flag and the duration are left  *)
(* alone, neither the completion decision nor the stall-to-restart         *)
(* decision is taken, and the loop goes on with the next tick of the same  *)
(* item.  The failed poll is the only step from "poll" that logs           *)
(* "poll_failed".                                                          *)
(***************************************************************************)
C22_FailedPollSkipsTick ==
    [][ (pc = "poll" /\ last_log' = "poll_failed")
          => /\ UNCHANGED << watched_seconds, is_restarting,
                             last_watched_before_restart,
                             stuck_reset_notice_shown, d >>
             /\ UNCHANGED << idx, restarts, warnings >>
             /\ pc' = "loop" ]_vars

\* the poll of a tick of the Restarting phase has failed: the next tick
\* starts with the restart state as the tick before left it
C22_Witness ==
    /\ pc = "loop"
    /\ last_log = "poll_failed"
    /\ is_restarting
    /\ restarts = 1
    /\ current_cp > 0
    /\ watched_seconds = last_watched_before_restart

(***************************************************************************)
(* C23.  Each tick, before the heartbeat is sent, the cursor becomes       *)
(* min(d, cursor + inc) with max(2, 1% of d) <= inc <= max(5, 5% of d);    *)
(* hence from the start of a tick to its heartbeat the cursor rises        *)
(* strictly while it is not yet d, and stays at d once it is d.  The       *)
(* assignment of line 247 is as stated; the consequence fails for a cursor *)
(* that starts above d, which the seeding of line 219 produces for d < 10. *)
(***************************************************************************)
C23_CursorRisesUntilDuration ==
    [][ (pc = "loop" /\ pc' = "heartbeat")
          => /\ \E inc \in Max(2, CeilDiv(d, 100)) .. Max(5, d \div 20) :
                  current_cp' = Min(d, current_cp + inc)
             /\ current_cp' >= current_cp
             /\ current_cp # d => current_cp' > current_cp
             /\ current_cp = d => current_cp' = d ]_vars

(***************************************************************************)
(* C24.  Two runs of an item that get the same watch_length values, the    *)
(* same network outcomes and the same random draws, and differ in the      *)
(* server's completed flag, send the same heartbeat payloads, have the     *)
(* same simulated state after every tick and complete at the same tick;    *)
(* only warning lines differ.  Stated as the step condition the            *)
(* equality of the two runs follows from by induction: the only steps that *)
(* read the flag are the seeding, the while test and the decisions, and    *)
(* every such step that is taken is also the step taken, with the same     *)
(* draws and the same successor, when any other flag value is read; the    *)
(* flag that words the warning of line 240 is the one thing kept.  The     *)
(* successor includes the payload, the cursor, the timestamp pointer,      *)
(* is_restarting, the snapshot, the recorded watched length, the item      *)
(* index and the program position.                                         *)
(***************************************************************************)
C24_FlagDoesNotSteer ==
    [][ \A f \in Flags :
          /\ pc = "init" => InitItemReading(f, completed_flag)
          /\ pc = "loop" => TickReading(MaxTicks, WallMs, f)
          /\ pc = "decide" => (DecideReading(f) /\ UNCHANGED now) ]_vars

\* an item seeded under flag 1 with a watched length below the duration: the
\* loop is entered as under flag 0, and the warning is the difference
C24_Witness ==
    /\ pc = "loop"
    /\ completed_flag = 1
    /\ last_log = "flag_without_coverage"
    /\ payload = NoPayload
    /\ watched_seconds < d
    /\ ~is_restarting

(***************************************************************************)
(* C25.  Every item starts its loop with a fresh simulation state,         *)
(* whatever the item before left: is_restarting and the notice flag are    *)
(* false, the snapshot is the item's own first watched length, the         *)
(* timestamp pointer is the item's own server timestamp, the pacing clock  *)
(* is the present time, the rate is a new draw and the cursor is the       *)
(* item's watched length or a new warm-up draw.  Every value is given by   *)
(* what the item itself fetched, so nothing of the item before is read.    *)
(***************************************************************************)
C25_ItemStartsFresh ==
    [][ (pc = "init" /\ pc' = "loop")
          => /\ ~is_restarting'
             /\ ~stuck_reset_notice_shown'
             /\ last_watched_before_restart' = watched_seconds'
             /\ ts_pointer' = timestamp_ms'
             /\ last_heartbeat_time' = now'
             /\ simulated_rate' \in Rates
             /\ IF watched_seconds' > 0
                THEN current_cp' = watched_seconds'
                ELSE current_cp' \in 5 .. Min(60, Max(10, d' \div 10))
             /\ restarts' = 0 ]_vars

\* the second item at the start of its loop, after an item that ran ticks
C25_Witness ==
    /\ pc = "loop"
    /\ idx = 2
    /\ ticks >= 2
    /\ payload = NoPayload
    /\ ~is_restarting
    /\ ~stuck_reset_notice_shown
    /\ last_watched_before_restart = watched_seconds
    /\ ts_pointer = timestamp_ms
    /\ timestamp_ms > 0

(***************************************************************************)
(* C26.  When the duration of the item metadata is 0 or unknown and the    *)
(* progress answer carries video_length = L > 0, L becomes the item's      *)
(* duration and the item is processed instead of being skipped.  The       *)
(* video_length is read at lines 196-203 only, so the claim needs every    *)
(* item whose metadata duration is 0 or null to go through them, and an    *)
(* item that leaves them for the seeding to have kept its duration or got  *)
(* a positive one.  Line 196 tests d == 0: an unknown (null) duration does *)
(* not reach the fallback and the item is skipped.                         *)
(***************************************************************************)
C26_VideoLengthAdopted ==
    [][ /\ (pc = "progress" /\ (d = 0 \/ d = None) /\ pc' # "raised")
              => pc' = "fallback"
        /\ (pc = "fallback" /\ pc' = "init")
              => (d' = d \/ d' > 0) ]_vars

(***************************************************************************)
(* C27.  Every heartbeat payload of a playable item carries a cursor cp    *)
(* with 0 < cp <= duration: for every seed, every sequence of answers of   *)
(* the server, and for the first heartbeat after a restart has set the     *)
(* cursor to 0.  The payload is cleared when the next item is fetched, so  *)
(* a payload in the state is one of the item whose duration d is.          *)
(***************************************************************************)
C27_PayloadCursorWithinDuration ==
    payload # NoPayload
        => (/\ 0 < payload.cp
            /\ payload.cp <= d
            /\ payload.d = d)

\* the first heartbeat after a restart, its payload built from cursor 0
C27_Witness ==
    /\ pc = "heartbeat"
    /\ retry = 0
    /\ is_restarting
    /\ last_log = "replaying"
    /\ restarts = 1
    /\ payload.cp = current_cp
    /\ payload.cp \in Increments(d)
    /\ payload.cp < d


(***************************************************************************)
(* C28.  At the start of a tick with is_restarting false the cursor is at  *)
(* least the recorded watched length; the cursor is below the recorded     *)
(* watched length only while is_restarting is true.  It holds at every     *)
(* position of the loop, the start of a tick among them.                   *)
(***************************************************************************)
C28_CursorNotBelowWatched ==
    (pc \in {"loop", "heartbeat", "poll", "decide"} /\ ~is_restarting)
        => current_cp >= watched_seconds

\* the start of a tick right after a restart has ended on an accepted value
\* above the cursor: the merge of lines 363-364 has raised the cursor to it
C28_Witness ==
    /\ pc = "loop"
    /\ ~is_restarting
    /\ restarts >= 1
    /\ has_watched = watched_seconds
    /\ watched_seconds > 0
    /\ current_cp = watched_seconds
    /\ payload.cp < current_cp


(***************************************************************************)
(* C29.  Within an item the cursor goes down only by the stall-to-restart  *)
(* transition, which sets it to 0: the advance of a tick and the merges of *)
(* both phases never lower it, and a tick whose heartbeat attempts all     *)
(* failed or whose poll failed keeps the advanced cursor and timestamp     *)
(* pointer.  The advance of line 247 lowers a cursor that the seeding of   *)
(* line 219 has put above the duration.                                    *)
(***************************************************************************)
C29_CursorLoweredOnlyByRestart ==
    [][ /\ (pc \in {"loop", "heartbeat", "poll", "decide"} /\ current_cp' < current_cp)
              => (/\ pc = "decide"
                  /\ restarts' = restarts + 1
                  /\ is_restarting'
                  /\ current_cp' = 0)
        /\ (pc \in {"heartbeat", "poll"} /\ pc' \in {"heartbeat", "poll", "loop"})
              => UNCHANGED << current_cp, ts_pointer >> ]_vars


(***************************************************************************)
(* main of src/src/app/course_app.py, lines 17-41: the menu loop around    *)
(* the two sessions.  A session is held as what main sees of it: the       *)
(* course selection both sessions start with, and the way the call ends.   *)
(* The variables of run_course_session keep their initial values.          *)
(***************************************************************************)
MaxMenus == 8

\* answers to the prompt of line 25
Choices == {"1", "2", "0", "x"}

\* len(course_list) at line 32 of course_progress.py
CourseCounts == {0, 1, 2}

InitM ==
    /\ pc = "leaf_info"
    /\ idx = 1
    /\ now = 0
    /\ ticks = 0
    /\ d = None
    /\ completed_flag = 0
    /\ watched_seconds = None
    /\ has_watched = None
    /\ timestamp_ms = None
    /\ current_cp = None
    /\ simulated_rate = None
    /\ ts_pointer = None
    /\ stuck_reset_notice_shown = FALSE
    /\ last_heartbeat_time = None
    /\ is_restarting = FALSE
    /\ last_watched_before_restart = None
    /\ retry = 0
    /\ status_code = "none"
    /\ payload = NoPayload
    /\ restarts = 0
    /\ warnings = 0
    /\ last_log = "none"
    /\ app_pc = "menu"
    /\ choice = "none"
    /\ menus_shown = 0
    /\ errors_logged = 0

\* lines 30 and 35: `except Exception`; SystemExit derives from BaseException
CaughtByMain(raised) == raised = "Exception"

\* what main does with something raised inside the try of lines 28-31 or
\* 33-36: the handler logs it and the while loop goes on, or it leaves main
Propagate(raised) ==
    IF CaughtByMain(raised)
    THEN /\ errors_logged' = errors_logged + 1
         /\ app_pc' = "menu"
    ELSE /\ app_pc' = "terminated"
         /\ UNCHANGED errors_logged

\* lines 20-41: the menu is printed, the answer read and dispatched
Menu(choices) ==
    /\ app_pc = "menu"
    /\ menus_shown < MaxMenus
    /\ menus_shown' = menus_shown + 1
    /\ \E c \in choices :
         /\ choice' = c
         /\ app_pc' = CASE c \in {"1", "2"} -> "select_course"
                        [] c = "0" -> "exited"
                        [] OTHER -> "menu"
    /\ UNCHANGED << errors_logged, sessionvars >>

\* course_progress.py lines 22-65, called first by both sessions (lines 69
\* and 634): the request or its decoding raises, or the list is empty and
\* line 34 raises SystemExit(-1), or a course is selected
SelectCourse(counts) ==
    /\ app_pc = "select_course"
    /\ \E ok \in BOOLEAN :
         IF ok
         THEN \E n \in counts :
                IF n = 0
                THEN Propagate("SystemExit")
                ELSE /\ app_pc' = "session"
                     /\ UNCHANGED errors_logged
         ELSE Propagate("Exception")
    /\ UNCHANGED << choice, menus_shown, sessionvars >>

\* the rest of run_course_session or run_discussion_comment_session: the
\* call returns, or an exception leaves it
SessionEnds ==
    /\ app_pc = "session"
    /\ \E returned \in BOOLEAN :
         IF returned
         THEN /\ app_pc' = "menu"
              /\ UNCHANGED errors_logged
         ELSE Propagate("Exception")
    /\ UNCHANGED << choice, menus_shown, sessionvars >>

NextM ==
    \/ Menu(Choices)
    \/ SelectCourse(CourseCounts)
    \/ SessionEnds

SpecM == InitM /\ [][NextM]_vars

(***************************************************************************)
(* C30.  A failure raised inside a video session or a comment session      *)
(* never ends the application: main logs it and shows the menu again, and  *)
(* the menu loop ends only when the user enters 0; also when the course    *)
(* list is empty.  A step out of a session leads on into the session or    *)
(* back to the menu, with one more error line when the session failed,     *)
(* and the application is left from the menu on the answer "0" only.       *)
(***************************************************************************)
C30_OnlyZeroEndsApplication ==
    [][ /\ app_pc \in {"select_course", "session"}
              => app_pc' \in {"select_course", "session", "menu"}
        /\ (app_pc' \in {"exited", "terminated"} /\ app_pc' # app_pc)
              => (app_pc = "menu" /\ choice' = "0" /\ app_pc' = "exited") ]_vars
====
